---- MODULE Spec2Model ----
(***************************************************************************)
(* fix_response_hash.py: a script that rewrites, in each of three listed   *)
(* Swift files that exist, every literal occurrence of "response.hash"     *)
(* into "response.id", and prints a line per rewritten file.               *)
(*                                                                         *)
(* Text is a sequence of one-character strings.  The filesystem maps each  *)
(* listed path to [exists, text].  The script is one sequential process    *)
(* whose position is pc; each statement that touches the filesystem or     *)
(* standard output is one step, and each such step may fail where the      *)
(* operating system can make it fail.                                      *)
(***************************************************************************)
EXTENDS Integers, Sequences, FiniteSets, TLC

VARIABLES
    fs,         \* the filesystem: listed path index -> [exists, text]
    pc,         \* position of the script
    i,          \* index in services of the path the for loop is at
    content,    \* the script's variable content
    out,        \* standard output of the current run, a sequence of lines
    run,        \* number of the current run of the script (1 = first)
    fsAtStart,  \* history: the filesystem when the current run started
    readText,   \* history: the text f.read() returned for the current path
    extLog      \* history: the external writer's writes, with where the script was

vars == <<fs, pc, i, content, out, run, fsAtStart, readText, extLog>>

-----------------------------------------------------------------------------
\* Bounds of the model.

\* Total number of tokens the initial contents of the three files are built of.
MaxTokens == 3

\* Number of runs of the script in succession.
MaxRuns == 2

\* Number of writes the external writer makes.
MaxExtWrites == 1

\* Total number of tokens of the initial contents beside the external writer.
MaxExtTokens == 1

-----------------------------------------------------------------------------
\* The program's constants.

services == << "Blendv3/Services/PoolService.swift",
               "Blendv3/Services/BackstopContractService.swift",
               "Blendv3/Services/BlendOracleService.swift" >>

Paths == 1..Len(services)

\* 'response.hash'
Old == << "r", "e", "s", "p", "o", "n", "s", "e", ".", "h", "a", "s", "h" >>

\* 'response.id'
New == << "r", "e", "s", "p", "o", "n", "s", "e", ".", "i", "d" >>

UpdatedLine(p) == "Updated " \o services[p]

AllUpdatedLine == "All services updated!"

-----------------------------------------------------------------------------
\* str.replace(old, new): scan left to right; at an occurrence of old emit new
\* and continue after the occurrence, otherwise emit the character.

IsAt(s, k, pat) ==
    /\ k + Len(pat) - 1 <= Len(s)
    /\ SubSeq(s, k, k + Len(pat) - 1) = pat

RECURSIVE ReplaceFrom(_, _)
ReplaceFrom(s, k) ==
    IF k > Len(s) THEN << >>
    ELSE IF IsAt(s, k, Old) THEN New \o ReplaceFrom(s, k + Len(Old))
    ELSE << s[k] >> \o ReplaceFrom(s, k + 1)

\* A replace that stops after the first occurrence (count = 1).
ReplaceFirstFrom(s, k) ==
    IF \E j \in k..Len(s) : IsAt(s, j, Old)
    THEN LET j == CHOOSE j \in k..Len(s) :
                      /\ IsAt(s, j, Old)
                      /\ \A h \in k..(j - 1) : ~IsAt(s, h, Old)
         IN  SubSeq(s, k, j - 1) \o New \o SubSeq(s, j + Len(Old), Len(s))
    ELSE SubSeq(s, k, Len(s))

ReplaceFirst(s) == ReplaceFirstFrom(s, 1)

\* A replace that matches only when the occurrence is not followed by a letter.
RECURSIVE ReplaceWordFrom(_, _)
ReplaceWordFrom(s, k) ==
    IF k > Len(s) THEN << >>
    ELSE IF /\ IsAt(s, k, Old)
            /\ \/ k + Len(Old) > Len(s)
               \/ s[k + Len(Old)] \in {".", " "}
         THEN New \o ReplaceWordFrom(s, k + Len(Old))
    ELSE << s[k] >> \o ReplaceWordFrom(s, k + 1)

ReplaceWord(s) == ReplaceWordFrom(s, 1)

Replace(s) == ReplaceFrom(s, 1)

-----------------------------------------------------------------------------
\* Initial file contents: a sequence of at most MaxTokens tokens, cut in three.

Tokens == { Old,
            << "r", "e", "s", "p", "o", "n", "s", "e", "." >>,
            << "h", "a", "s", "h" >>,
            << "e", "s" >>,
            << "x" >> }

TokenSeqs(n) == UNION { [1..k -> Tokens] : k \in 0..n }

RECURSIVE Flat(_)
Flat(ts) == IF ts = << >> THEN << >> ELSE Head(ts) \o Flat(Tail(ts))

File(e, t) == [exists |-> e, text |-> t]

Absent == File(FALSE, << >>)

InitFiles(n) ==
    /\ \E ts \in TokenSeqs(n), missing \in SUBSET Paths :
         \E a \in 0..Len(ts) : \E b \in a..Len(ts) :
            LET seg == << SubSeq(ts, 1, a), SubSeq(ts, a + 1, b),
                          SubSeq(ts, b + 1, Len(ts)) >>
            IN  /\ \A p \in missing : seg[p] = << >>
                /\ fs = [p \in Paths |->
                            IF p \in missing THEN Absent
                            ELSE File(TRUE, Flat(seg[p]))]
    /\ fsAtStart = fs
    /\ pc = "check"
    /\ i = 1
    /\ content = << >>
    /\ readText = << >>
    /\ out = << >>
    /\ run = 1
    /\ extLog = << >>

\* The script alone.
Init == InitFiles(MaxTokens)

\* The script beside an external writer.
InitExt == InitFiles(MaxExtTokens)

-----------------------------------------------------------------------------
\* The script, statement by statement.

\* for service_file in services / if os.path.exists(service_file): true
CheckExists ==
    /\ pc = "check"
    /\ i \in Paths
    /\ fs[i].exists
    /\ pc' = "read"
    /\ UNCHANGED <<fs, i, content, out, run, fsAtStart, readText, extLog>>

\* The guard left out: a missing path is opened like any other.
CheckMissingUnguarded ==
    /\ pc = "check"
    /\ i \in Paths
    /\ ~fs[i].exists
    /\ pc' = "read"
    /\ UNCHANGED <<fs, i, content, out, run, fsAtStart, readText, extLog>>

\* if os.path.exists(service_file): false, on to the next path
CheckMissing ==
    /\ pc = "check"
    /\ i \in Paths
    /\ ~fs[i].exists
    /\ i' = i + 1
    /\ UNCHANGED <<fs, pc, content, out, run, fsAtStart, readText, extLog>>

\* with open(service_file, 'r') as f: content = f.read()
ReadOk ==
    /\ pc = "read"
    /\ content' = fs[i].text
    /\ readText' = fs[i].text
    /\ pc' = "replace"
    /\ UNCHANGED <<fs, i, out, run, fsAtStart, extLog>>

\* open(service_file, 'r') or f.read() raises
ReadFail ==
    /\ pc = "read"
    /\ pc' = "aborted"
    /\ UNCHANGED <<fs, i, content, out, run, fsAtStart, readText, extLog>>

\* A replace that skips the write and the log when nothing matched.
DoReplaceSkipUnchanged ==
    /\ pc = "replace"
    /\ content' = Replace(content)
    /\ IF Replace(content) = content
       THEN pc' = "check" /\ i' = i + 1
       ELSE pc' = "openw" /\ i' = i
    /\ UNCHANGED <<fs, out, run, fsAtStart, readText, extLog>>

\* The log line printed before the write instead of after it.
DoReplaceLogsFirst ==
    /\ pc = "replace"
    /\ content' = Replace(content)
    /\ out' = Append(out, UpdatedLine(i))
    /\ pc' = "openw"
    /\ UNCHANGED <<fs, i, run, fsAtStart, readText, extLog>>

\* content = content.replace('response.hash', 'response.id')
DoReplace ==
    /\ pc = "replace"
    /\ content' = Replace(content)
    /\ pc' = "openw"
    /\ UNCHANGED <<fs, i, out, run, fsAtStart, readText, extLog>>

\* The file opened for update ('r+') instead of 'w': no truncation.
OpenWriteNoTruncate ==
    /\ pc = "openw"
    /\ pc' = "write"
    /\ UNCHANGED <<fs, i, content, out, run, fsAtStart, readText, extLog>>

\* with open(service_file, 'w') as f: the open truncates the file
OpenWriteOk ==
    /\ pc = "openw"
    /\ fs' = [fs EXCEPT ![i] = File(TRUE, << >>)]
    /\ pc' = "write"
    /\ UNCHANGED <<i, content, out, run, fsAtStart, readText, extLog>>

\* The failure caught and the loop continued (try/except: continue).
OpenWriteFailContinue ==
    /\ pc = "openw"
    /\ pc' = "check"
    /\ i' = i + 1
    /\ UNCHANGED <<fs, content, out, run, fsAtStart, readText, extLog>>

\* open(service_file, 'w') raises: the file is left as it was
OpenWriteFail ==
    /\ pc = "openw"
    /\ pc' = "aborted"
    /\ UNCHANGED <<fs, i, content, out, run, fsAtStart, readText, extLog>>

\* f.write(content) and the close: the text goes to offset 0 of the open file
WriteOk ==
    /\ pc = "write"
    /\ fs' = [fs EXCEPT ![i] =
                File(TRUE, content \o SubSeq(fs[i].text, Len(content) + 1,
                                             Len(fs[i].text)))]
    /\ pc' = "print"
    /\ UNCHANGED <<i, content, out, run, fsAtStart, readText, extLog>>

\* f.write(content) or the close raises: some proper prefix reached the file
WriteFail ==
    /\ pc = "write"
    /\ \E n \in 0..(Len(content) - 1) :
         fs' = [fs EXCEPT ![i] =
                  File(TRUE, SubSeq(content, 1, n)
                             \o SubSeq(fs[i].text, n + 1, Len(fs[i].text)))]
    /\ pc' = "aborted"
    /\ UNCHANGED <<i, content, out, run, fsAtStart, readText, extLog>>

\* The log line left out.
PrintNothing ==
    /\ pc = "print"
    /\ i' = i + 1
    /\ pc' = "check"
    /\ UNCHANGED <<fs, content, out, run, fsAtStart, readText, extLog>>

\* print(f"Updated {service_file}"), and the loop moves on
PrintUpdated ==
    /\ pc = "print"
    /\ out' = Append(out, UpdatedLine(i))
    /\ i' = i + 1
    /\ pc' = "check"
    /\ UNCHANGED <<fs, content, run, fsAtStart, readText, extLog>>

\* The completion line printed only when some file was updated.
PrintAllIfAny ==
    /\ pc = "check"
    /\ i = Len(services) + 1
    /\ out' = IF out = << >> THEN out ELSE Append(out, AllUpdatedLine)
    /\ pc' = "done"
    /\ UNCHANGED <<fs, i, content, run, fsAtStart, readText, extLog>>

\* print("All services updated!") once the loop is exhausted
PrintAll ==
    /\ pc = "check"
    /\ i = Len(services) + 1
    /\ out' = Append(out, AllUpdatedLine)
    /\ pc' = "done"
    /\ UNCHANGED <<fs, i, content, run, fsAtStart, readText, extLog>>

\* The script is run again after a run that completed.
RunAgain ==
    /\ pc = "done"
    /\ run < MaxRuns
    /\ run' = run + 1
    /\ fsAtStart' = fs
    /\ pc' = "check"
    /\ i' = 1
    /\ content' = << >>
    /\ readText' = << >>
    /\ out' = << >>
    /\ UNCHANGED <<fs, extLog>>

Next ==
    \/ CheckExists
    \/ CheckMissing
    \/ ReadOk
    \/ ReadFail
    \/ DoReplace
    \/ OpenWriteOk
    \/ OpenWriteFail
    \/ WriteOk
    \/ WriteFail
    \/ PrintUpdated
    \/ PrintAll
    \/ RunAgain

Spec == Init /\ [][Next]_vars

-----------------------------------------------------------------------------
\* Another process writes a listed file that exists, at any moment: the script
\* takes no lock and keeps no file open between its read and its write.

ExtTexts == { Old, << "x" >> }

\* Where the script is, relative to path p, when the external writer writes p:
\* "window" after the script's read of p and before its open for writing,
\* "open" between that open and the write, "other" otherwise.
When(p) ==
    IF p = i /\ pc \in {"replace", "openw"} THEN "window"
    ELSE IF p = i /\ pc = "write" THEN "open"
    ELSE "other"

ExternalWrite ==
    /\ Len(extLog) < MaxExtWrites
    /\ \E p \in Paths, d \in ExtTexts :
         /\ fs[p].exists
         /\ fs' = [fs EXCEPT ![p] = File(TRUE, d)]
         /\ extLog' = Append(extLog, [path |-> p, text |-> d, when |-> When(p)])
    /\ UNCHANGED <<pc, i, content, out, run, fsAtStart, readText>>

\* One run of the script without I/O failure, beside the external writer.
NextExt ==
    \/ CheckExists
    \/ CheckMissing
    \/ ReadOk
    \/ DoReplace
    \/ OpenWriteOk
    \/ WriteOk
    \/ PrintUpdated
    \/ PrintAll
    \/ ExternalWrite

SpecExt == InitExt /\ [][NextExt]_vars

-----------------------------------------------------------------------------
\* What the properties below are stated in.

Range(q) == { q[k] : k \in 1..Len(q) }

\* The positions of s where pat occurs.
Occ(s, pat) == { k \in 1..Len(s) : IsAt(s, k, pat) }

HasOld(s) == Occ(s, Old) # {}

HasNew(s) == Occ(s, New) # {}

Shrink == Len(Old) - Len(New)

\* t is s with every occurrence of Old turned into New and nothing else
\* changed: stated position by position, without the scan of str.replace.
\* before(j) counts the occurrences that start before position j of s, and
\* covered(j) says that position j of s lies inside an occurrence.
Patched(s, t) ==
    LET occ == Occ(s, Old)
        before(j) == Cardinality({ k \in occ : k < j })
        covered(j) == \E k \in occ : k <= j /\ j < k + Len(Old)
    IN  /\ Len(t) = Len(s) - Shrink * Cardinality(occ)
        /\ \A j \in 1..Len(s) :
             ~covered(j) => t[j - Shrink * before(j)] = s[j]
        /\ \A k \in occ :
             LET k2 == k - Shrink * before(k)
             IN  SubSeq(t, k2, k2 + Len(New) - 1) = New

\* The iteration of path p has finished in the current run.
Finished(p) == p < i

-----------------------------------------------------------------------------
\* C1: for every listed path that exists when the run visits it, the text
\* written back is the text read with every occurrence of 'response.hash'
\* replaced by 'response.id' and every other character unchanged and in order;
\* there is no word-boundary check ('response.hashes' gives 'response.ides').
C1_WrittenIsPatched ==
    /\ pc = "print" =>
         /\ fs[i].text = content
         /\ Patched(readText, fs[i].text)
    /\ \A p \in Paths :
         Finished(p) /\ fsAtStart[p].exists =>
            Patched(fsAtStart[p].text, fs[p].text)

\* 'response.hashes' was rewritten into 'response.ides'.
C1_Witness ==
    /\ pc = "print"
    /\ readText = Old \o << "e", "s" >>
    /\ fs[i].text = New \o << "e", "s" >>

\* A path missing at the start of the run stays missing and unlogged, and the
\* script is never past the existence check on it.
C2_MissingStaysMissing ==
    \A p \in Paths :
        ~fsAtStart[p].exists =>
            /\ ~fs[p].exists
            /\ UpdatedLine(p) \notin Range(out)
            /\ p = i => pc = "check"

\* The existence check of a missing path only moves the loop on.
C2_SkipStep ==
    (pc = "check" /\ i \in Paths /\ ~fs[i].exists) =>
        (pc' = "check" /\ i' = i + 1 /\ out' = out /\ fs' = fs)

\* C2: a listed path that does not exist is skipped: no Updated line for it,
\* no error, no file created at it, and the loop goes on to the next path.
C2_MissingSkipped == [] C2_MissingStaysMissing /\ [][C2_SkipStep]_vars

\* A missing path was passed and a later path that exists was updated.
C2_Witness ==
    \E p \in Paths, q \in Paths :
        /\ p < q
        /\ Finished(p)
        /\ ~fsAtStart[p].exists
        /\ ~fs[p].exists
        /\ UpdatedLine(q) \in Range(out)

\* C3: when the script has run to completion twice in succession, the second
\* run has left every listed file with the content the first run left.
C3_SecondRunChangesNothing ==
    (run >= 2 /\ pc = "done") => fs = fsAtStart

\* A second run completed over a file the first run had patched twice.
C3_Witness ==
    /\ run = 2
    /\ pc = "done"
    /\ \E p \in Paths : fs[p].text = New \o New

-----------------------------------------------------------------------------
\* What an aborted run has left: the failing path unlogged, no completion
\* line, later paths untouched, earlier paths patched and logged.
C4_AbortedState ==
    pc = "aborted" =>
        /\ i \in Paths
        /\ fsAtStart[i].exists
        /\ UpdatedLine(i) \notin Range(out)
        /\ AllUpdatedLine \notin Range(out)
        /\ \A p \in Paths :
             /\ p > i => fs[p] = fsAtStart[p] /\ UpdatedLine(p) \notin Range(out)
             /\ (p < i /\ fsAtStart[p].exists) =>
                    /\ Patched(fsAtStart[p].text, fs[p].text)
                    /\ UpdatedLine(p) \in Range(out)

\* A step that does not produce what the statement produces is a failure, and
\* a failure ends the run where it is; nothing follows it.
C4_FailureStep ==
    /\ pc # "aborted"
    /\ ( \/ (pc = "read" /\ pc' # "replace")
         \/ (pc = "openw" /\ pc' # "write")
         \/ (pc = "write" /\ pc' # "print") )
       => (pc' = "aborted" /\ i' = i /\ out' = out)

\* C4: when the read or the write of a path that exists fails, the run aborts
\* there: no Updated line for that path, no later path read or written, no
\* completion line, and the files patched earlier keep their patched content.
C4_FailureAborts == [] C4_AbortedState /\ [][C4_FailureStep]_vars

\* The run aborted at the second or third path after patching an earlier one,
\* with a later path that exists left alone.
C4_Witness ==
    /\ pc = "aborted"
    /\ \E p \in Paths, q \in Paths :
         /\ p < i
         /\ i < q
         /\ HasOld(fsAtStart[p].text)
         /\ HasNew(fs[p].text)
         /\ fs[q].exists
         /\ HasOld(fs[q].text)

\* The listed paths that existed when the run started, in list order.
ExistingPaths ==
    SelectSeq([p \in Paths |-> p], LAMBDA p : fsAtStart[p].exists)

\* Their Updated lines, then the completion line.
ExpectedOut ==
    [k \in 1..Len(ExistingPaths) |-> UpdatedLine(ExistingPaths[k])]
        \o << AllUpdatedLine >>

\* C5: a run without I/O failure prints exactly one Updated line per listed
\* path that existed, in list order, then the completion line, last and once,
\* also when paths are missing; a path's Updated line follows its write.
C5_Output ==
    /\ pc = "done" => out = ExpectedOut
    /\ pc # "done" =>
         /\ Len(out) < Len(ExpectedOut)
         /\ out = SubSeq(ExpectedOut, 1, Len(out))
    /\ \A p \in Paths :
         UpdatedLine(p) \in Range(out) =>
            /\ Finished(p)
            /\ fs[p].exists
            /\ Patched(fsAtStart[p].text, fs[p].text)

\* A run completed with the second path missing: two Updated lines, in order,
\* and the completion line.
C5_Witness ==
    /\ pc = "done"
    /\ ~fsAtStart[2].exists
    /\ out = << UpdatedLine(1), UpdatedLine(3), AllUpdatedLine >>

\* A run completed with every path missing: the completion line alone.
C5_WitnessNone ==
    /\ pc = "done"
    /\ \A p \in Paths : ~fsAtStart[p].exists
    /\ out = << AllUpdatedLine >>

\* Without an occurrence the text to write is the text read, and a finished
\* path without an occurrence holds its old text and has its Updated line.
C6_NoMatchState ==
    /\ (pc \in {"openw", "write", "print"} /\ ~HasOld(readText)) =>
          content = readText
    /\ \A p \in Paths :
         (Finished(p) /\ fsAtStart[p].exists /\ ~HasOld(fsAtStart[p].text)) =>
            /\ fs[p] = fsAtStart[p]
            /\ UpdatedLine(p) \in Range(out)

\* No step after the existence check depends on the content.
C6_NoMatchStep ==
    /\ (pc = "check" /\ i \in Paths /\ fs[i].exists) => pc' = "read"
    /\ pc = "replace" => (pc' = "openw" /\ i' = i)
    /\ (pc = "openw" /\ pc' = "write") => fs'[i] = File(TRUE, << >>)
    /\ (pc = "write" /\ pc' = "print") => fs'[i] = File(TRUE, content)
    /\ pc = "print" => out' = Append(out, UpdatedLine(i))

\* C6: a listed file that exists and holds no occurrence of 'response.hash'
\* is read, truncated and written back in full with the same text, and logged:
\* the write and the log line depend on the path existing, not on a match.
C6_NoMatchStillRewritten == [] C6_NoMatchState /\ [][C6_NoMatchStep]_vars

\* A file without any occurrence has been truncated and written back.
C6_Witness ==
    /\ pc = "done"
    /\ \E p \in Paths :
         /\ fsAtStart[p].text = << "h", "a", "s", "h", "x" >>
         /\ fs[p].text = fsAtStart[p].text
         /\ UpdatedLine(p) \in Range(out)

\* C7: after a run that completed, no listed file that exists contains
\* 'response.hash': 'response.id' forms no new occurrence with its neighbours.
C7_NoOldLeft ==
    pc = "done" => \A p \in Paths : ~HasOld(fs[p].text)

\* 'response.' + 'response.hash' + 'hash' was patched: the replacement stands
\* between a prefix and a suffix of the old substring.
C7_Witness ==
    /\ pc = "done"
    /\ \E p \in Paths :
         /\ fsAtStart[p].text =
               << "r", "e", "s", "p", "o", "n", "s", "e", "." >> \o Old
                   \o << "h", "a", "s", "h" >>
         /\ fs[p].text =
               << "r", "e", "s", "p", "o", "n", "s", "e", "." >> \o New
                   \o << "h", "a", "s", "h" >>

-----------------------------------------------------------------------------
\* The states of a listed path in the current run, read off the script's state:
\* unvisited while no statement has acted on it, skipped once the loop has
\* passed it and found no file, done once its Updated line is printed.
Unvisited(p) == p > i \/ (p = i /\ pc = "check")

Skipped(p) == Finished(p) /\ ~fs[p].exists

Done(p) == UpdatedLine(p) \in Range(out)

\* Between the existence check finding the file and the log line, or stopped
\* there for good by an I/O failure.
InProgress(p) == p = i /\ pc \in {"read", "replace", "openw", "write", "print", "aborted"}

ExactlyOne(bs) == Cardinality({ k \in 1..Len(bs) : bs[k] }) = 1

\* C8, as claimed: at every point of every run each listed path is unvisited,
\* done or skipped, and exactly one of the three.
C8_ThreeStates ==
    \A p \in Paths : ExactlyOne(<< Unvisited(p), Done(p), Skipped(p) >>)

\* Exactly one of four states, and of the claim's three between iterations.
C8_FourStates ==
    /\ \A p \in Paths :
         ExactlyOne(<< Unvisited(p), InProgress(p), Done(p), Skipped(p) >>)
    /\ pc \in {"check", "done"} =>
         \A p \in Paths : ExactlyOne(<< Unvisited(p), Done(p), Skipped(p) >>)

\* Within a run: done and skipped are final, and done is entered only from
\* in progress.
C8_Stable ==
    run' = run =>
        \A p \in Paths :
            /\ Done(p) => Done(p)'
            /\ Skipped(p) => Skipped(p)'
            /\ (Unvisited(p) /\ Done(p)') => FALSE
            /\ (InProgress(p) /\ ~InProgress(p)') => Done(p)'

\* C8, amended: each listed path is in exactly one of four states: unvisited,
\* in progress, done, skipped; only the current path is ever in progress; at
\* the existence check and at completion every path is in one of the three
\* states of the claim; a path that is done or skipped stays so for the run.
C8_PathStates == [] C8_FourStates /\ [][C8_Stable]_vars

\* The first path is done, the second skipped, and the third is between its
\* truncation and its write: none of unvisited, done, skipped.
C8_Witness ==
    /\ i = 3
    /\ pc = "write"
    /\ Done(1)
    /\ Skipped(2)
    /\ HasOld(readText)
    /\ fs[3].text = << >>
    /\ ~Unvisited(3) /\ ~Done(3) /\ ~Skipped(3)

\* Later paths are untouched and unlogged, the current path is unlogged and
\* unwritten until its write, earlier paths are written and logged.
C9_OneAtATime ==
    \A p \in Paths :
        /\ p > i => /\ fs[p] = fsAtStart[p]
                    /\ UpdatedLine(p) \notin Range(out)
        /\ p = i => /\ UpdatedLine(p) \notin Range(out)
                    /\ pc \in {"check", "read", "replace", "openw"} =>
                          fs[p] = fsAtStart[p]
                    /\ pc \in {"replace", "openw", "write", "print"} =>
                          readText = fsAtStart[p].text
        /\ (p < i /\ fsAtStart[p].exists) =>
                    /\ Patched(fsAtStart[p].text, fs[p].text)
                    /\ UpdatedLine(p) \in Range(out)
        /\ (p < i /\ ~fsAtStart[p].exists) => ~fs[p].exists

\* The steps the script takes, in the order it takes them.
C9_Order ==
    \/ pc = "check" /\ pc' = "read" /\ i' = i /\ fs[i].exists
    \/ pc = "check" /\ pc' = "check" /\ i' = i + 1 /\ ~fs[i].exists
    \/ pc = "check" /\ pc' = "done" /\ i = Len(services) + 1
    \/ pc = "read" /\ pc' = "replace" /\ i' = i /\ fs' = fs
    \/ pc = "replace" /\ pc' = "openw" /\ i' = i /\ fs' = fs /\ out' = out
    \/ pc = "openw" /\ pc' = "write" /\ i' = i /\ out' = out
    \/ pc = "write" /\ pc' = "print" /\ i' = i /\ out' = out
    \/ pc = "print" /\ pc' = "check" /\ i' = i + 1 /\ fs' = fs
          /\ out' = Append(out, UpdatedLine(i))
    \/ pc \in {"read", "openw", "write"} /\ pc' = "aborted" /\ i' = i
    \/ pc = "done" /\ pc' = "check" /\ i' = 1 /\ run' = run + 1

\* C9: paths are processed in list order, one at a time: existence check,
\* read, replace, write, log, in that order, and nothing is done to a later
\* path before the write and the log of the current one have finished.
C9_Sequential == [] C9_OneAtATime /\ [][C9_Order]_vars

\* The second path is between its read and its write while the first is
\* written and logged and the third, which holds an occurrence, is untouched.
C9_Witness ==
    /\ i = 2
    /\ pc = "write"
    /\ HasOld(fsAtStart[1].text)
    /\ HasNew(fs[1].text)
    /\ out = << UpdatedLine(1) >>
    /\ HasOld(readText)
    /\ HasOld(fs[3].text)

-----------------------------------------------------------------------------
\* The external writer wrote the current path while the script held it open.
WroteWhileOpen ==
    \E k \in 1..Len(extLog) : extLog[k].path = i /\ extLog[k].when = "open"

\* The open truncates and the write stores the patched text read earlier,
\* whatever the file held in between.
C10_WriteStep ==
    /\ (pc = "openw" /\ pc' = "write") => fs'[i] = File(TRUE, << >>)
    /\ (pc = "write" /\ pc' = "print" /\ ~WroteWhileOpen) =>
          /\ fs'[i] = File(TRUE, content)
          /\ Patched(readText, content)

\* C10: the script takes no lock between its read and its write, so what an
\* external writer puts in a listed file after the script's read and before
\* the script opens it for writing is lost: the script's write leaves the file
\* holding the patched version of the text it read earlier.
C10_Overwrites == [][C10_WriteStep]_vars

\* The external writer wrote the current path in the window, and the file now
\* holds the script's text, which is not the writer's text, patched or not.
C10_LostUpdate ==
    /\ pc = "print"
    /\ fs[i].text = content
    /\ Patched(readText, content)
    /\ \E k \in 1..Len(extLog) :
         /\ extLog[k].path = i
         /\ extLog[k].when = "window"
         /\ extLog[k].text # readText
         /\ extLog[k].text # content
         /\ ~Patched(extLog[k].text, content)

====
